---- MODULE Spec2Model ----
(***************************************************************************)
(* A model of the two containers of ads_py:                                *)
(*   - DLLS, the doubly linked-list stack (stacks_and_queues/dlls.py)      *)
(*   - BST, the unbalanced binary search tree (binary_search_trees/bst.py) *)
(* Nodes live in a heap addressed by positive integers; None is 0.  Each   *)
(* method is an operator from a heap record to a heap record (with the     *)
(* returned value and the exception raised, if any), and each action       *)
(* applies one method to the current heap.                                 *)
(***************************************************************************)
EXTENDS Integers, Sequences, FiniteSets

VARIABLES
    \* ---- DLLS ----
    head,           \* DLLS._head
    tail,           \* DLLS._tail
    dlls_key,       \* DLLS.Node._key, per node
    next,           \* DLLS.Node._next, per node
    prev,           \* DLLS.Node._prev, per node
    dlls_n,         \* number of DLLS.Node objects constructed so far
    hist,           \* the push and pop calls made on the DLLS so far, with their results
    dlls_op,        \* the search call that was the last call on the DLLS, if one was
    \* ---- BST ----
    root,           \* BST._root
    bst_key,        \* BST.Node._key, per node
    parent,         \* BST.Node._parent, per node
    left_child,     \* BST.Node._left_child, per node
    right_child,    \* BST.Node._right_child, per node
    bst_n,          \* number of BST.Node objects constructed so far
    deleted,        \* the nodes delete_node was called on
    op,             \* the last call made on the BST, with its result
    calls           \* the callback invocations of the last walk

dlls_vars == <<head, tail, dlls_key, next, prev, dlls_n, hist, dlls_op>>
bst_vars  == <<root, bst_key, parent, left_child, right_child, bst_n, deleted, op, calls>>
vars      == <<dlls_vars, bst_vars>>

\* ------------------------------------------------------------------ bounds
MaxStackNodes == 3      \* DLLS nodes constructed in one behaviour
MaxOps        == 7      \* DLLS calls recorded in one behaviour
MaxTreeNodes  == 4      \* BST nodes constructed in one behaviour
MaxReadNodes  == 3      \* the same, where the read operations are called too
MaxKey        == 3      \* keys are 1..MaxKey

Keys       == 1..MaxKey
StackNodes == 1..MaxStackNodes
TreeNodes  == 1..MaxTreeNodes

\* ------------------------------------------------------------- shared
None == 0

\* CMPValues, the values a comparison function returns
LESS    == -1
EQUAL   == 0
GREATER == 1

\* The caller's comparison function: the consistent total order on the keys.
cmp_fn(v1, v2) == IF v1 < v2 THEN LESS ELSE IF v1 = v2 THEN EQUAL ELSE GREATER

\* isinstance(mode, str): a mode is modelled by a string, and "<int>" stands
\* for a mode that is not a str.
is_str(mode) == mode # "<int>"

\* ==================================================================== DLLS
\* The stack as one record; raised is the exception that ended the call.
DLLSState ==
    [head |-> head, tail |-> tail, key |-> dlls_key, next |-> next,
     prev |-> prev, n |-> dlls_n, ret |-> None, raised |-> "none"]

\* Attribute reads and writes: on None they raise AttributeError, and nothing
\* after a raise is executed.
dlls_set(s, field, node, value) ==
    IF s.raised # "none" THEN s
    ELSE IF node = None THEN [s EXCEPT !.raised = "AttributeError"]
    ELSE [s EXCEPT ![field][node] = value]

\* DLLS.Node.__init__
dlls_Node(s, new_key) ==
    LET id == s.n + 1
    IN  [s EXCEPT !.n = id, !.key[id] = new_key, !.next[id] = None,
                  !.prev[id] = None, !.ret = id]

is_empty(s) == (s.head = None) /\ (s.tail = None)

push_NoPrev(s, new_key) ==
    LET s1 == dlls_Node(s, new_key)
        new_tail == s1.ret
    IN  IF s1.tail = None
        THEN [s1 EXCEPT !.head = new_tail, !.tail = new_tail, !.ret = new_tail]
        ELSE LET s3 == dlls_set(s1, "next", s1.tail, new_tail)
             IN  [s3 EXCEPT !.tail = new_tail, !.ret = new_tail]

\* Mutant of push: CASE B does not link the old tail to the new node.
push_NoNext(s, new_key) ==
    LET s1 == dlls_Node(s, new_key)
        new_tail == s1.ret
        s2 == dlls_set(dlls_set(s1, "next", new_tail, None), "prev", new_tail, s1.tail)
    IN  [s2 EXCEPT !.head = IF s2.tail = None THEN new_tail ELSE s2.head,
                   !.tail = new_tail, !.ret = new_tail]

\* Mutant of push: the list is made circular, the new tail's next is the head.
push_Circular(s, new_key) ==
    LET s1 == dlls_Node(s, new_key)
        new_tail == s1.ret
        s2 == dlls_set(dlls_set(s1, "next", new_tail, s1.head), "prev", new_tail, s1.tail)
    IN  IF s2.tail = None
        THEN [s2 EXCEPT !.head = new_tail, !.tail = new_tail, !.ret = new_tail]
        ELSE LET s3 == dlls_set(s2, "next", s2.tail, new_tail)
             IN  [s3 EXCEPT !.tail = new_tail, !.ret = new_tail]

push(s, new_key) ==
    LET s1 == dlls_Node(s, new_key)
        new_tail == s1.ret
        s2 == dlls_set(dlls_set(s1, "next", new_tail, None), "prev", new_tail, s1.tail)
    IN  IF s2.tail = None
        THEN [s2 EXCEPT !.head = new_tail, !.tail = new_tail, !.ret = new_tail]
        ELSE LET s3 == dlls_set(s2, "next", s2.tail, new_tail)
             IN  [s3 EXCEPT !.tail = new_tail, !.ret = new_tail]

\* Mutants of pop: plausible slips of the code, used to show that the
\* properties below depend on it.
pop_ReturnsRemoved(s) ==
    IF is_empty(s) THEN [s EXCEPT !.ret = None]
    ELSE IF s.tail = None THEN [s EXCEPT !.raised = "AttributeError"]
    ELSE LET old_tail == s.tail
             s1 == [s EXCEPT !.tail = s.prev[old_tail]]
         IN  IF s1.tail = None
             THEN [s1 EXCEPT !.head = None, !.ret = old_tail]
             ELSE LET s2 == dlls_set(s1, "next", s1.tail, None)
                  IN  [s2 EXCEPT !.ret = old_tail]

pop_ReturnsHead(s) ==
    IF is_empty(s) THEN [s EXCEPT !.ret = None]
    ELSE IF s.tail = None THEN [s EXCEPT !.raised = "AttributeError"]
    ELSE LET old_tail == s.tail
             s1 == [s EXCEPT !.tail = s.prev[old_tail]]
         IN  IF s1.tail = None
             THEN [s1 EXCEPT !.head = None, !.ret = None]
             ELSE LET s2 == dlls_set(s1, "next", s1.tail, None)
                  IN  [s2 EXCEPT !.ret = s2.head]

pop_Front(s) ==
    IF is_empty(s) THEN [s EXCEPT !.ret = None]
    ELSE IF s.head = None THEN [s EXCEPT !.raised = "AttributeError"]
    ELSE LET old_head == s.head
             s1 == [s EXCEPT !.head = s.next[old_head]]
         IN  IF s1.head = None
             THEN [s1 EXCEPT !.tail = None, !.ret = None]
             ELSE LET s2 == dlls_set(s1, "prev", s1.head, None)
                  IN  [s2 EXCEPT !.ret = s2.tail]

pop_NoEmptyCheck(s) ==
    IF s.tail = None THEN [s EXCEPT !.raised = "AttributeError"]
    ELSE LET old_tail == s.tail
             s1 == [s EXCEPT !.tail = s.prev[old_tail]]
         IN  IF s1.tail = None
             THEN [s1 EXCEPT !.head = None, !.ret = None]
             ELSE LET s2 == dlls_set(s1, "next", s1.tail, None)
                  IN  [s2 EXCEPT !.ret = s2.tail]

pop(s) ==
    IF is_empty(s) THEN [s EXCEPT !.ret = None]
    ELSE IF s.tail = None THEN [s EXCEPT !.raised = "AttributeError"]
    ELSE LET old_tail == s.tail
             s1 == [s EXCEPT !.tail = s.prev[old_tail]]
         IN  IF s1.tail = None
             THEN [s1 EXCEPT !.head = None, !.ret = None]
             ELSE LET s2 == dlls_set(s1, "next", s1.tail, None)
                  IN  [s2 EXCEPT !.ret = s2.tail]

\* The loop of __iterative_search.
RECURSIVE dlls_scan(_, _, _)
dlls_scan(s, curr, target_key) ==
    IF curr = None THEN None
    ELSE IF cmp_fn(s.key[curr], target_key) = EQUAL THEN curr
    ELSE dlls_scan(s, s.next[curr], target_key)

\* Mutant of __iterative_search: the scan runs from tail along prev.
RECURSIVE dlls_scan_back(_, _, _)
dlls_scan_back(s, curr, target_key) ==
    IF curr = None THEN None
    ELSE IF cmp_fn(s.key[curr], target_key) = EQUAL THEN curr
    ELSE dlls_scan_back(s, s.prev[curr], target_key)

dlls_iterative_search_FromTail(s, target_key) ==
    [s EXCEPT !.ret = dlls_scan_back(s, s.tail, target_key)]

dlls_iterative_search(s, target_key) ==
    [s EXCEPT !.ret = dlls_scan(s, s.head, target_key)]

\* Mutant of __recursive_search: BASE CASE 1 stops at the tail node.
RECURSIVE dlls_recursive_search_StopsAtTail(_, _, _)
dlls_recursive_search_StopsAtTail(s, target_key, self_head) ==
    IF self_head = None \/ self_head = s.tail THEN None
    ELSE IF cmp_fn(s.key[self_head], target_key) = EQUAL THEN self_head
    ELSE dlls_recursive_search_StopsAtTail(s, target_key, s.next[self_head])

RECURSIVE dlls_recursive_search(_, _, _)
dlls_recursive_search(s, target_key, self_head) ==
    IF self_head = None THEN None
    ELSE IF cmp_fn(s.key[self_head], target_key) = EQUAL THEN self_head
    ELSE dlls_recursive_search(s, target_key, s.next[self_head])

\* Mutant of search: the recursive scan advances the list's own head.
dlls_search_MovesHead(s, target_key, mode) ==
    IF ~is_str(mode) THEN [s EXCEPT !.ret = None, !.raised = "TypeError"]
    ELSE IF mode = "i" THEN dlls_iterative_search(s, target_key)
    ELSE IF mode = "r"
         THEN LET found == dlls_recursive_search(s, target_key, s.head)
              IN  [s EXCEPT !.ret = found, !.head = found]
    ELSE [s EXCEPT !.ret = None, !.raised = "ValueError"]

dlls_search(s, target_key, mode) ==
    IF ~is_str(mode) THEN [s EXCEPT !.ret = None, !.raised = "TypeError"]
    ELSE IF mode = "i" THEN dlls_iterative_search(s, target_key)
    ELSE IF mode = "r" THEN [s EXCEPT !.ret = dlls_recursive_search(s, target_key, s.head)]
    ELSE [s EXCEPT !.ret = None, !.raised = "ValueError"]

\* The nodes __iterative_search examines from curr, and the calls of
\* __recursive_search on a node from self_head: one per node, counted up to
\* `fuel` of them.
RECURSIVE dlls_search_steps(_, _, _, _)
dlls_search_steps(s, curr, target_key, fuel) ==
    IF curr = None \/ fuel = 0 THEN 0
    ELSE IF cmp_fn(s.key[curr], target_key) = EQUAL THEN 1
    ELSE 1 + dlls_search_steps(s, s.next[curr], target_key, fuel - 1)

\* The nodes met from `node` along next, in order (at most `fuel` of them).
RECURSIVE dlls_chain(_, _, _)
dlls_chain(s, node, fuel) ==
    IF node = None \/ fuel = 0 THEN <<>>
    ELSE <<node>> \o dlls_chain(s, s.next[node], fuel - 1)

\* The nodes reachable from head, in order.
Chain(s) == dlls_chain(s, s.head, MaxStackNodes + 1)

\* ------------------------------------------------------------ DLLS actions
\* dlls_op when the last call on the DLLS was no search.
DLLSNoCall == [name |-> "none", key |-> None, mode |-> "", ret |-> None, raised |-> "none"]

DLLSApply(s) ==
    /\ head' = s.head
    /\ tail' = s.tail
    /\ dlls_key' = s.key
    /\ next' = s.next
    /\ prev' = s.prev
    /\ dlls_n' = s.n

Push(new_key) ==
    /\ dlls_n < MaxStackNodes
    /\ Len(hist) < MaxOps
    /\ LET s == push(DLLSState, new_key)
       IN  /\ DLLSApply(s)
           /\ hist' = Append(hist, [name |-> "push", key |-> new_key,
                                    was_empty |-> is_empty(DLLSState),
                                    before |-> Chain(DLLSState), after |-> Chain(s),
                                    ret |-> s.ret, raised |-> s.raised])
    /\ dlls_op' = DLLSNoCall
    /\ UNCHANGED bst_vars

Pop ==
    /\ Len(hist) < MaxOps
    /\ LET s == pop(DLLSState)
       IN  /\ DLLSApply(s)
           /\ hist' = Append(hist, [name |-> "pop", key |-> None,
                                    was_empty |-> is_empty(DLLSState),
                                    before |-> Chain(DLLSState), after |-> Chain(s),
                                    ret |-> s.ret, raised |-> s.raised])
    /\ dlls_op' = DLLSNoCall
    /\ UNCHANGED bst_vars

DLLSSearch(target_key, mode) ==
    /\ LET s == dlls_search(DLLSState, target_key, mode)
       IN  /\ DLLSApply(s)
           /\ dlls_op' = [name |-> "search", key |-> target_key, mode |-> mode,
                          ret |-> s.ret, raised |-> s.raised]
    /\ UNCHANGED <<hist, bst_vars>>

\* ===================================================================== BST
\* The tree as one record; raised is the exception that ended the call.
BSTState ==
    [root |-> root, key |-> bst_key, parent |-> parent, left_child |-> left_child,
     right_child |-> right_child, n |-> bst_n, ret |-> None, raised |-> "none"]

\* Attribute writes: on None they raise AttributeError, and nothing after a
\* raise is executed.
bst_set(t, field, node, value) ==
    IF t.raised # "none" THEN t
    ELSE IF node = None THEN [t EXCEPT !.raised = "AttributeError"]
    ELSE [t EXCEPT ![field][node] = value]

\* The root setter.
bst_set_root(t, new_root) ==
    IF t.raised # "none" THEN t ELSE [t EXCEPT !.root = new_root]

\* BST.Node.__init__
bst_Node(t, new_key) ==
    LET id == t.n + 1
    IN  [t EXCEPT !.n = id, !.key[id] = new_key, !.parent[id] = None,
                  !.left_child[id] = None, !.right_child[id] = None, !.ret = id]

\* An argument that is neither None nor a BST.Node (a key, say).
NotANode == -1

\* isinstance(x, BST.Node): x is one of the nodes constructed so far.
is_node(t, x) == x \in 1..t.n

\* STEP 2 of __iterative_insert, the loop: the node under which new_node goes.
RECURSIVE insert_slot(_, _, _, _)
insert_slot(t, new_node, prev_node, curr) ==
    IF curr = None THEN prev_node
    ELSE IF cmp_fn(t.key[new_node], t.key[curr]) = LESS
         THEN insert_slot(t, new_node, curr, t.left_child[curr])
         ELSE insert_slot(t, new_node, curr, t.right_child[curr])

RECURSIVE insert_slot_EqualLeft(_, _, _, _)
insert_slot_EqualLeft(t, new_node, prev_node, curr) ==
    IF curr = None THEN prev_node
    ELSE IF cmp_fn(t.key[new_node], t.key[curr]) # GREATER
         THEN insert_slot_EqualLeft(t, new_node, curr, t.left_child[curr])
         ELSE insert_slot_EqualLeft(t, new_node, curr, t.right_child[curr])

\* Mutant of __iterative_insert: a key EQUAL to a node's key goes left.
iterative_insert_EqualLeft(t, new_node) ==
    LET prev_node == insert_slot_EqualLeft(t, new_node, None, t.root)
        t1 == bst_set(t, "parent", new_node, prev_node)
        t2 == IF prev_node = None THEN bst_set_root(t1, new_node)
              ELSE IF cmp_fn(t1.key[new_node], t1.key[prev_node]) # GREATER
                   THEN bst_set(t1, "left_child", prev_node, new_node)
                   ELSE bst_set(t1, "right_child", prev_node, new_node)
    IN  [t2 EXCEPT !.ret = new_node]

\* Mutant of __iterative_insert: the new node's parent is not set.
iterative_insert_NoParent(t, new_node) ==
    LET prev_node == insert_slot(t, new_node, None, t.root)
        t2 == IF prev_node = None THEN bst_set_root(t, new_node)
              ELSE IF cmp_fn(t.key[new_node], t.key[prev_node]) = LESS
                   THEN bst_set(t, "left_child", prev_node, new_node)
                   ELSE bst_set(t, "right_child", prev_node, new_node)
    IN  [t2 EXCEPT !.ret = new_node]

iterative_insert(t, new_node) ==
    LET prev_node == insert_slot(t, new_node, None, t.root)
        t1 == bst_set(t, "parent", new_node, prev_node)
        t2 == IF prev_node = None THEN bst_set_root(t1, new_node)
              ELSE IF cmp_fn(t1.key[new_node], t1.key[prev_node]) = LESS
                   THEN bst_set(t1, "left_child", prev_node, new_node)
                   ELSE bst_set(t1, "right_child", prev_node, new_node)
    IN  [t2 EXCEPT !.ret = new_node]

\* Mutant of __recursive_insert: a key EQUAL to a node's key goes left.
RECURSIVE recursive_insert_EqualLeft(_, _, _, _)
recursive_insert_EqualLeft(t, new_node, subroot, root_parent) ==
    IF subroot = None
    THEN [bst_set(t, "parent", new_node, root_parent) EXCEPT !.ret = new_node]
    ELSE IF cmp_fn(t.key[new_node], t.key[subroot]) # GREATER
         THEN LET r == recursive_insert_EqualLeft(t, new_node, t.left_child[subroot], subroot)
              IN  [bst_set(r, "left_child", subroot, r.ret) EXCEPT !.ret = subroot]
         ELSE LET r == recursive_insert_EqualLeft(t, new_node, t.right_child[subroot], subroot)
              IN  [bst_set(r, "right_child", subroot, r.ret) EXCEPT !.ret = subroot]

\* ret is the node the call returns: the subtree's root, or new_node at an
\* empty slot.
RECURSIVE recursive_insert(_, _, _, _)
recursive_insert(t, new_node, subroot, root_parent) ==
    IF subroot = None
    THEN [bst_set(t, "parent", new_node, root_parent) EXCEPT !.ret = new_node]
    ELSE IF cmp_fn(t.key[new_node], t.key[subroot]) = LESS
         THEN LET r == recursive_insert(t, new_node, t.left_child[subroot], subroot)
              IN  [bst_set(r, "left_child", subroot, r.ret) EXCEPT !.ret = subroot]
         ELSE LET r == recursive_insert(t, new_node, t.right_child[subroot], subroot)
              IN  [bst_set(r, "right_child", subroot, r.ret) EXCEPT !.ret = subroot]

\* Mutant of insert_node: the node is inserted before the mode is looked at.
insert_node_InsertsFirst(t, new_key, mode) ==
    LET t1 == bst_Node(t, new_key)
        t2 == iterative_insert(t1, t1.ret)
    IN  IF ~is_str(mode) THEN [t2 EXCEPT !.ret = None, !.raised = "TypeError"]
        ELSE IF mode \in {"i", "r"} THEN t2
        ELSE [t2 EXCEPT !.ret = None, !.raised = "ValueError"]

insert_node(t, new_key, mode) ==
    LET t1 == bst_Node(t, new_key)
        new_node == t1.ret
    IN  IF ~is_str(mode) THEN [t1 EXCEPT !.ret = None, !.raised = "TypeError"]
        ELSE IF mode = "i" THEN iterative_insert(t1, new_node)
        ELSE IF mode = "r"
             THEN LET r == recursive_insert(t1, new_node, t1.root, None)
                  IN  [bst_set_root(r, r.ret) EXCEPT !.ret = new_node]
        ELSE [t1 EXCEPT !.ret = None, !.raised = "ValueError"]

\* STEP 2 of min_node, the loop.
RECURSIVE leftmost(_, _)
leftmost(t, curr_node) ==
    IF t.left_child[curr_node] # None THEN leftmost(t, t.left_child[curr_node])
    ELSE curr_node

min_node(t, subroot) ==
    IF ~is_node(t, subroot) THEN [t EXCEPT !.ret = None, !.raised = "TypeError"]
    ELSE [t EXCEPT !.ret = leftmost(t, subroot)]

\* STEP 2 of max_node, the loop.
RECURSIVE rightmost(_, _)
rightmost(t, curr_node) ==
    IF t.right_child[curr_node] # None THEN rightmost(t, t.right_child[curr_node])
    ELSE curr_node

max_node(t, subroot) ==
    IF ~is_node(t, subroot) THEN [t EXCEPT !.ret = None, !.raised = "TypeError"]
    ELSE [t EXCEPT !.ret = rightmost(t, subroot)]

\* CASE B of predecessor_node, the loop.
RECURSIVE predecessor_climb(_, _, _)
predecessor_climb(t, node, predecessor) ==
    IF predecessor # None /\ node = t.left_child[predecessor]
    THEN predecessor_climb(t, predecessor, t.parent[predecessor])
    ELSE predecessor

\* CASE B of successor_node, the loop.
RECURSIVE successor_climb(_, _, _)
successor_climb(t, node, successor) ==
    IF successor # None /\ node = t.right_child[successor]
    THEN successor_climb(t, successor, t.parent[successor])
    ELSE successor

\* Mutant of predecessor_node: CASE B climbs while node is a right child.
predecessor_node_ClimbsRight(t, node) ==
    IF ~is_node(t, node) THEN [t EXCEPT !.ret = None, !.raised = "TypeError"]
    ELSE IF t.left_child[node] # None THEN max_node(t, t.left_child[node])
    ELSE [t EXCEPT !.ret = successor_climb(t, node, t.parent[node])]

predecessor_node(t, node) ==
    IF ~is_node(t, node) THEN [t EXCEPT !.ret = None, !.raised = "TypeError"]
    ELSE IF t.left_child[node] # None THEN max_node(t, t.left_child[node])
    ELSE [t EXCEPT !.ret = predecessor_climb(t, node, t.parent[node])]

\* Mutant of successor_node: CASE A takes the right child itself.
successor_node_RightChild(t, node) ==
    IF ~is_node(t, node) THEN [t EXCEPT !.ret = None, !.raised = "TypeError"]
    ELSE IF t.right_child[node] # None THEN [t EXCEPT !.ret = t.right_child[node]]
    ELSE [t EXCEPT !.ret = successor_climb(t, node, t.parent[node])]

\* Mutant of successor_node: CASE B returns the parent without climbing.
successor_node_NoClimb(t, node) ==
    IF ~is_node(t, node) THEN [t EXCEPT !.ret = None, !.raised = "TypeError"]
    ELSE IF t.right_child[node] # None THEN min_node(t, t.right_child[node])
    ELSE [t EXCEPT !.ret = t.parent[node]]

successor_node(t, node) ==
    IF ~is_node(t, node) THEN [t EXCEPT !.ret = None, !.raised = "TypeError"]
    ELSE IF t.right_child[node] # None THEN min_node(t, t.right_child[node])
    ELSE [t EXCEPT !.ret = successor_climb(t, node, t.parent[node])]

\* Mutant of __transplant_node: CASE A, the root, is left out.
transplant_node_KeepsRoot(t, node1, node2) ==
    IF t.raised # "none" THEN t
    ELSE IF node1 = None THEN [t EXCEPT !.raised = "AttributeError"]
    ELSE LET p == t.parent[node1]
             t1 == IF p = None THEN t
                   ELSE IF node1 = t.left_child[p]
                        THEN bst_set(t, "left_child", p, node2)
                        ELSE bst_set(t, "right_child", p, node2)
         IN  IF node2 # None THEN bst_set(t1, "parent", node2, p) ELSE t1

\* Mutant of __transplant_node: STEP 2, node2's parent, is left out.
transplant_node_NoParent(t, node1, node2) ==
    IF t.raised # "none" THEN t
    ELSE IF node1 = None THEN [t EXCEPT !.raised = "AttributeError"]
    ELSE LET p == t.parent[node1]
         IN  IF p = None THEN bst_set_root(t, node2)
             ELSE IF node1 = t.left_child[p]
                  THEN bst_set(t, "left_child", p, node2)
                  ELSE bst_set(t, "right_child", p, node2)

transplant_node(t, node1, node2) ==
    IF t.raised # "none" THEN t
    ELSE IF node1 = None THEN [t EXCEPT !.raised = "AttributeError"]
    ELSE LET p == t.parent[node1]
             t1 == IF p = None THEN bst_set_root(t, node2)
                   ELSE IF node1 = t.left_child[p]
                        THEN bst_set(t, "left_child", p, node2)
                        ELSE bst_set(t, "right_child", p, node2)
         IN  IF node2 # None THEN bst_set(t1, "parent", node2, p) ELSE t1

\* Mutant of delete_node: an argument that is no node is ignored.
delete_node_IgnoresNonNode(t, node) ==
    IF ~is_node(t, node) THEN [t EXCEPT !.ret = None]
    ELSE IF t.left_child[node] = None
         THEN [transplant_node(t, node, t.right_child[node]) EXCEPT !.ret = None]
    ELSE IF t.right_child[node] = None
         THEN [transplant_node(t, node, t.left_child[node]) EXCEPT !.ret = None]
    ELSE LET m  == min_node(t, t.right_child[node]).ret
             t1 == IF t.parent[m] # node
                   THEN LET a == transplant_node(t, m, t.right_child[m])
                            b == bst_set(a, "right_child", m, a.right_child[node])
                        IN  bst_set(b, "parent", b.right_child[m], m)
                   ELSE t
             t2 == transplant_node(t1, node, m)
             t3 == bst_set(t2, "left_child", m, t2.left_child[node])
             t4 == bst_set(t3, "parent", t3.left_child[m], m)
         IN  [t4 EXCEPT !.ret = None]

\* Mutant of delete_node: CASE 3A is left out, the minimum is always taken to
\* be the node's right child.
delete_node_NoCase3A(t, node) ==
    IF ~is_node(t, node) THEN [t EXCEPT !.ret = None, !.raised = "TypeError"]
    ELSE IF t.left_child[node] = None
         THEN [transplant_node(t, node, t.right_child[node]) EXCEPT !.ret = None]
    ELSE IF t.right_child[node] = None
         THEN [transplant_node(t, node, t.left_child[node]) EXCEPT !.ret = None]
    ELSE LET m  == min_node(t, t.right_child[node]).ret
             t2 == transplant_node(t, node, m)
             t3 == bst_set(t2, "left_child", m, t2.left_child[node])
             t4 == bst_set(t3, "parent", t3.left_child[m], m)
         IN  [t4 EXCEPT !.ret = None]

\* Mutant of delete_node: CASE 2 puts the right child (None) in the node's place.
delete_node_Case2Right(t, node) ==
    IF ~is_node(t, node) THEN [t EXCEPT !.ret = None, !.raised = "TypeError"]
    ELSE IF t.left_child[node] = None
         THEN [transplant_node(t, node, t.right_child[node]) EXCEPT !.ret = None]
    ELSE IF t.right_child[node] = None
         THEN [transplant_node(t, node, t.right_child[node]) EXCEPT !.ret = None]
    ELSE LET m  == min_node(t, t.right_child[node]).ret
             t1 == IF t.parent[m] # node
                   THEN LET a == transplant_node(t, m, t.right_child[m])
                            b == bst_set(a, "right_child", m, a.right_child[node])
                        IN  bst_set(b, "parent", b.right_child[m], m)
                   ELSE t
             t2 == transplant_node(t1, node, m)
             t3 == bst_set(t2, "left_child", m, t2.left_child[node])
             t4 == bst_set(t3, "parent", t3.left_child[m], m)
         IN  [t4 EXCEPT !.ret = None]

\* Mutant of delete_node: CASE 3B does not attach the node's left subtree.
delete_node_NoLeftAttach(t, node) ==
    IF ~is_node(t, node) THEN [t EXCEPT !.ret = None, !.raised = "TypeError"]
    ELSE IF t.left_child[node] = None
         THEN [transplant_node(t, node, t.right_child[node]) EXCEPT !.ret = None]
    ELSE IF t.right_child[node] = None
         THEN [transplant_node(t, node, t.left_child[node]) EXCEPT !.ret = None]
    ELSE LET m  == min_node(t, t.right_child[node]).ret
             t1 == IF t.parent[m] # node
                   THEN LET a == transplant_node(t, m, t.right_child[m])
                            b == bst_set(a, "right_child", m, a.right_child[node])
                        IN  bst_set(b, "parent", b.right_child[m], m)
                   ELSE t
             t2 == transplant_node(t1, node, m)
         IN  [t2 EXCEPT !.ret = None]

delete_node(t, node) ==
    IF ~is_node(t, node) THEN [t EXCEPT !.ret = None, !.raised = "TypeError"]
    ELSE IF t.left_child[node] = None
         THEN [transplant_node(t, node, t.right_child[node]) EXCEPT !.ret = None]
    ELSE IF t.right_child[node] = None
         THEN [transplant_node(t, node, t.left_child[node]) EXCEPT !.ret = None]
    ELSE LET m  == min_node(t, t.right_child[node]).ret
             t1 == IF t.parent[m] # node
                   THEN LET a == transplant_node(t, m, t.right_child[m])
                            b == bst_set(a, "right_child", m, a.right_child[node])
                        IN  bst_set(b, "parent", b.right_child[m], m)
                   ELSE t
             t2 == transplant_node(t1, node, m)
             t3 == bst_set(t2, "left_child", m, t2.left_child[node])
             t4 == bst_set(t3, "parent", t3.left_child[m], m)
         IN  [t4 EXCEPT !.ret = None]

\* The walks: the sequence of callback invocations, each the function called
\* and the key it got.  The recursive calls pass no operation, so they run
\* with the parameter's default, print.
RECURSIVE inorder_walk(_, _, _)
inorder_walk(t, subroot, operation) ==
    IF subroot = None THEN <<>>
    ELSE inorder_walk(t, t.left_child[subroot], "print")
         \o <<[fn |-> operation, key |-> t.key[subroot]]>>
         \o inorder_walk(t, t.right_child[subroot], "print")

RECURSIVE preorder_walk(_, _, _)
preorder_walk(t, subroot, operation) ==
    IF subroot = None THEN <<>>
    ELSE <<[fn |-> operation, key |-> t.key[subroot]]>>
         \o preorder_walk(t, t.left_child[subroot], "print")
         \o preorder_walk(t, t.right_child[subroot], "print")

RECURSIVE postorder_walk(_, _, _)
postorder_walk(t, subroot, operation) ==
    IF subroot = None THEN <<>>
    ELSE postorder_walk(t, t.left_child[subroot], "print")
         \o postorder_walk(t, t.right_child[subroot], "print")
         \o <<[fn |-> operation, key |-> t.key[subroot]]>>

\* The loop of __iterative_search.
RECURSIVE search_loop(_, _, _)
search_loop(t, subroot, target_key) ==
    IF subroot = None THEN None
    ELSE IF cmp_fn(target_key, t.key[subroot]) = LESS
         THEN search_loop(t, t.left_child[subroot], target_key)
    ELSE IF cmp_fn(target_key, t.key[subroot]) = GREATER
         THEN search_loop(t, t.right_child[subroot], target_key)
    ELSE subroot

\* Mutant of __iterative_search: the comparison's arguments are swapped.
RECURSIVE search_loop_Swapped(_, _, _)
search_loop_Swapped(t, subroot, target_key) ==
    IF subroot = None THEN None
    ELSE IF cmp_fn(t.key[subroot], target_key) = LESS
         THEN search_loop_Swapped(t, t.left_child[subroot], target_key)
    ELSE IF cmp_fn(t.key[subroot], target_key) = GREATER
         THEN search_loop_Swapped(t, t.right_child[subroot], target_key)
    ELSE subroot

iterative_search_Swapped(t, target_key) ==
    [t EXCEPT !.ret = search_loop_Swapped(t, t.root, target_key)]

iterative_search(t, target_key) ==
    [t EXCEPT !.ret = search_loop(t, t.root, target_key)]

RECURSIVE recursive_search(_, _, _)
recursive_search(t, subroot, target_key) ==
    IF subroot = None THEN None
    ELSE IF cmp_fn(t.key[subroot], target_key) = EQUAL THEN subroot
    ELSE IF cmp_fn(t.key[subroot], t.key[subroot]) = GREATER
         THEN recursive_search(t, t.right_child[subroot], target_key)
    ELSE recursive_search(t, t.left_child[subroot], target_key)

search(t, target_key, mode) ==
    IF ~is_str(mode) THEN [t EXCEPT !.ret = None, !.raised = "TypeError"]
    ELSE IF mode = "i" THEN iterative_search(t, target_key)
    ELSE IF mode = "r" THEN [t EXCEPT !.ret = recursive_search(t, t.root, target_key)]
    ELSE [t EXCEPT !.ret = None, !.raised = "ValueError"]

\* The step counts of the loops and recursions, each counted up to `fuel`.
\* Iterations of the loop of __iterative_insert, calls of __recursive_insert
\* on a node.
RECURSIVE insert_steps(_, _, _, _)
insert_steps(t, new_key, curr, fuel) ==
    IF curr = None \/ fuel = 0 THEN 0
    ELSE IF cmp_fn(new_key, t.key[curr]) = LESS
         THEN 1 + insert_steps(t, new_key, t.left_child[curr], fuel - 1)
         ELSE 1 + insert_steps(t, new_key, t.right_child[curr], fuel - 1)

\* Iterations of the loop of __iterative_search.
RECURSIVE iterative_search_steps(_, _, _, _)
iterative_search_steps(t, subroot, target_key, fuel) ==
    IF subroot = None \/ fuel = 0 THEN 0
    ELSE IF cmp_fn(target_key, t.key[subroot]) = LESS
         THEN 1 + iterative_search_steps(t, t.left_child[subroot], target_key, fuel - 1)
    ELSE IF cmp_fn(target_key, t.key[subroot]) = GREATER
         THEN 1 + iterative_search_steps(t, t.right_child[subroot], target_key, fuel - 1)
    ELSE 1

\* Calls of __recursive_search on a node.
RECURSIVE recursive_search_steps(_, _, _, _)
recursive_search_steps(t, subroot, target_key, fuel) ==
    IF subroot = None \/ fuel = 0 THEN 0
    ELSE IF cmp_fn(t.key[subroot], target_key) = EQUAL THEN 1
    ELSE IF cmp_fn(t.key[subroot], t.key[subroot]) = GREATER
         THEN 1 + recursive_search_steps(t, t.right_child[subroot], target_key, fuel - 1)
    ELSE 1 + recursive_search_steps(t, t.left_child[subroot], target_key, fuel - 1)

\* Iterations of the loop of min_node.
RECURSIVE leftmost_steps(_, _, _)
leftmost_steps(t, curr_node, fuel) ==
    IF t.left_child[curr_node] = None \/ fuel = 0 THEN 0
    ELSE 1 + leftmost_steps(t, t.left_child[curr_node], fuel - 1)

\* Iterations of the loop of max_node.
RECURSIVE rightmost_steps(_, _, _)
rightmost_steps(t, curr_node, fuel) ==
    IF t.right_child[curr_node] = None \/ fuel = 0 THEN 0
    ELSE 1 + rightmost_steps(t, t.right_child[curr_node], fuel - 1)

\* Iterations of the loop of predecessor_node, CASE B.
RECURSIVE predecessor_climb_steps(_, _, _, _)
predecessor_climb_steps(t, node, predecessor, fuel) ==
    IF predecessor # None /\ node = t.left_child[predecessor] /\ fuel # 0
    THEN 1 + predecessor_climb_steps(t, predecessor, t.parent[predecessor], fuel - 1)
    ELSE 0

\* Iterations of the loop of successor_node, CASE B.
RECURSIVE successor_climb_steps(_, _, _, _)
successor_climb_steps(t, node, successor, fuel) ==
    IF successor # None /\ node = t.right_child[successor] /\ fuel # 0
    THEN 1 + successor_climb_steps(t, successor, t.parent[successor], fuel - 1)
    ELSE 0

\* Calls of a walk on a node (the three walks make the same calls), to a
\* depth of `fuel`.
RECURSIVE walk_steps(_, _, _)
walk_steps(t, subroot, fuel) ==
    IF subroot = None \/ fuel = 0 THEN 0
    ELSE 1 + walk_steps(t, t.left_child[subroot], fuel - 1)
           + walk_steps(t, t.right_child[subroot], fuel - 1)

\* The nodes of the subtree at `node`, by the child links (at most `fuel` deep).
RECURSIVE bst_subtree(_, _, _)
bst_subtree(t, node, fuel) ==
    IF node = None \/ fuel = 0 THEN {}
    ELSE {node} \cup bst_subtree(t, t.left_child[node], fuel - 1)
                \cup bst_subtree(t, t.right_child[node], fuel - 1)

Subtree(t, node) == bst_subtree(t, node, MaxTreeNodes + 1)

\* The nodes reachable from root.
InTree(t) == Subtree(t, t.root)

\* ------------------------------------------------------------- BST actions
BSTApply(t) ==
    /\ root' = t.root
    /\ bst_key' = t.key
    /\ parent' = t.parent
    /\ left_child' = t.left_child
    /\ right_child' = t.right_child
    /\ bst_n' = t.n

Call(name, key, mode, node, t) ==
    [name |-> name, key |-> key, mode |-> mode, node |-> node,
     ret |-> t.ret, raised |-> t.raised]

Insert(new_key, mode) ==
    /\ bst_n < MaxTreeNodes
    /\ LET t == insert_node(BSTState, new_key, mode)
       IN  /\ BSTApply(t)
           /\ op' = Call("insert_node", new_key, mode, None, t)
    /\ calls' = <<>>
    /\ UNCHANGED <<deleted, dlls_vars>>

\* delete_node on a node currently in the tree.
Delete(node) ==
    /\ node \in InTree(BSTState)
    /\ LET t == delete_node(BSTState, node)
       IN  /\ BSTApply(t)
           /\ op' = Call("delete_node", None, "", node, t)
    /\ deleted' = deleted \cup {node}
    /\ calls' = <<>>
    /\ UNCHANGED dlls_vars

Search(target_key, mode) ==
    /\ LET t == search(BSTState, target_key, mode)
       IN  /\ BSTApply(t)
           /\ op' = Call("search", target_key, mode, None, t)
    /\ calls' = <<>>
    /\ UNCHANGED <<deleted, dlls_vars>>

\* A walk from a node of the tree, or from None, with the caller's operation.
Walk(name, start) ==
    /\ start \in InTree(BSTState) \cup {None}
    /\ calls' = CASE name = "inorder_walk"   -> inorder_walk(BSTState, start, "operation")
                  [] name = "preorder_walk"  -> preorder_walk(BSTState, start, "operation")
                  [] name = "postorder_walk" -> postorder_walk(BSTState, start, "operation")
    /\ op' = Call(name, None, "", start, BSTState)
    /\ UNCHANGED <<root, bst_key, parent, left_child, right_child, bst_n, deleted, dlls_vars>>

\* min_node, max_node, predecessor_node or successor_node on a node of the
\* tree, on None or on an object that is no node.
Nav(name, node) ==
    /\ node \in InTree(BSTState) \cup {None, NotANode}
    /\ LET t == CASE name = "min_node"         -> min_node(BSTState, node)
                  [] name = "max_node"         -> max_node(BSTState, node)
                  [] name = "predecessor_node" -> predecessor_node(BSTState, node)
                  [] name = "successor_node"   -> successor_node(BSTState, node)
       IN  /\ BSTApply(t)
           /\ op' = Call(name, None, "", node, t)
    /\ calls' = <<>>
    /\ UNCHANGED <<deleted, dlls_vars>>

\* delete_node on None or on an object that is no node.
DeleteNonNode(node) ==
    /\ node \in {None, NotANode}
    /\ LET t == delete_node(BSTState, node)
       IN  /\ BSTApply(t)
           /\ op' = Call("delete_node", None, "", node, t)
    /\ calls' = <<>>
    /\ UNCHANGED <<deleted, dlls_vars>>

\* A walk called without an operation: the default, print, is called on
\* every key.
WalkDefault(name, start) ==
    /\ start \in InTree(BSTState) \cup {None}
    /\ calls' = CASE name = "inorder_walk"   -> inorder_walk(BSTState, start, "print")
                  [] name = "preorder_walk"  -> preorder_walk(BSTState, start, "print")
                  [] name = "postorder_walk" -> postorder_walk(BSTState, start, "print")
    /\ op' = Call(name, None, "", start, BSTState)
    /\ UNCHANGED <<root, bst_key, parent, left_child, right_child, bst_n, deleted, dlls_vars>>

\* The scenario: the keys inserted, in order; the first one is deleted after.
ScenarioKeys == <<5, 3, 8, 1, 4, 7, 9>>
ScenarioNodes == 1..Len(ScenarioKeys)

ScenarioInsert(mode) ==
    /\ bst_n < Len(ScenarioKeys)
    /\ deleted = {}
    /\ LET t == insert_node(BSTState, ScenarioKeys[bst_n + 1], mode)
       IN  /\ BSTApply(t)
           /\ op' = Call("insert_node", ScenarioKeys[bst_n + 1], mode, None, t)
    /\ calls' = <<>>
    /\ UNCHANGED <<deleted, dlls_vars>>

\* delete_node on the node search finds for the first key.
ScenarioDelete ==
    /\ bst_n = Len(ScenarioKeys)
    /\ deleted = {}
    /\ LET node == search(BSTState, ScenarioKeys[1], "i").ret
           t == delete_node(BSTState, node)
       IN  /\ BSTApply(t)
           /\ op' = Call("delete_node", None, "", node, t)
           /\ deleted' = deleted \cup {node}
    /\ calls' = <<>>
    /\ UNCHANGED dlls_vars

\* is_empty; its result is recorded as Python's int value of the bool.
IsEmpty ==
    /\ dlls_op' = [name |-> "is_empty", key |-> None, mode |-> "",
                   ret |-> IF is_empty(DLLSState) THEN 1 ELSE 0, raised |-> "none"]
    /\ UNCHANGED <<head, tail, dlls_key, next, prev, dlls_n, hist, bst_vars>>

DLLSInit ==
    /\ head = None
    /\ tail = None
    /\ dlls_key = [x \in StackNodes |-> None]
    /\ next = [x \in StackNodes |-> None]
    /\ prev = [x \in StackNodes |-> None]
    /\ dlls_n = 0
    /\ hist = <<>>
    /\ dlls_op = DLLSNoCall

BSTInit ==
    /\ root = None
    /\ bst_key = [x \in TreeNodes |-> None]
    /\ parent = [x \in TreeNodes |-> None]
    /\ left_child = [x \in TreeNodes |-> None]
    /\ right_child = [x \in TreeNodes |-> None]
    /\ bst_n = 0
    /\ deleted = {}
    /\ op = [name |-> "init", key |-> None, mode |-> "", node |-> None,
             ret |-> None, raised |-> "none"]
    /\ calls = <<>>

Init == DLLSInit /\ BSTInit

DLLSNext ==
    \/ \E new_key \in Keys : Push(new_key)
    \/ Pop

SpecDLLS == Init /\ [][DLLSNext]_vars

\* The stack under push, pop and search.
DLLSReadNext ==
    \/ \E new_key \in Keys : Push(new_key)
    \/ Pop
    \/ \E target_key \in Keys, mode \in {"i", "r"} : DLLSSearch(target_key, mode)

SpecDLLSRead == Init /\ [][DLLSReadNext]_vars

Modes == {"i", "r"}
WalkNames == {"inorder_walk", "preorder_walk", "postorder_walk"}

\* The tree under its mutators.
BSTNext ==
    \/ \E new_key \in Keys, mode \in Modes : Insert(new_key, mode)
    \/ \E node \in TreeNodes : Delete(node)

SpecBST == Init /\ [][BSTNext]_vars

\* The tree under its mutators and its read operations, on smaller trees.
BSTReadNext ==
    \/ bst_n < MaxReadNodes /\ \E new_key \in Keys, mode \in Modes : Insert(new_key, mode)
    \/ \E node \in TreeNodes : Delete(node)
    \/ \E target_key \in Keys, mode \in Modes : Search(target_key, mode)
    \/ \E name \in WalkNames, start \in TreeNodes \cup {None} : Walk(name, start)

SpecBSTRead == Init /\ [][BSTReadNext]_vars

NavNames == {"min_node", "max_node", "predecessor_node", "successor_node"}

\* The tree under its mutators and min/max/predecessor/successor.
BSTNavNext ==
    \/ bst_n < MaxReadNodes /\ \E new_key \in Keys, mode \in Modes : Insert(new_key, mode)
    \/ \E node \in TreeNodes : Delete(node)
    \/ \E node \in {None, NotANode} : DeleteNonNode(node)
    \/ \E name \in NavNames, node \in TreeNodes \cup {None, NotANode} : Nav(name, node)

SpecBSTNav == Init /\ [][BSTNavNext]_vars

\* The modes a caller can pass: the two recognised ones, another string, and
\* a value that is not a string.
AllModes == {"i", "r", "x", "<int>"}
BadModes == AllModes \ Modes

DLLSUntouched == dlls_n = 0 /\ hist = << >> /\ dlls_op = DLLSNoCall
BSTUntouched == bst_n = 0 /\ op.name = "init"

\* One structure, a stack or a tree, under its mutators with any mode and
\* its searches with the modes that are not recognised.
ModesNext ==
    \/ BSTUntouched /\ \E new_key \in Keys : Push(new_key)
    \/ BSTUntouched /\ Pop
    \/ BSTUntouched /\ \E target_key \in Keys, mode \in BadModes : DLLSSearch(target_key, mode)
    \/ DLLSUntouched /\ bst_n < MaxReadNodes
                     /\ \E new_key \in Keys, mode \in AllModes : Insert(new_key, mode)
    \/ DLLSUntouched /\ \E node \in TreeNodes : Delete(node)
    \/ DLLSUntouched /\ \E target_key \in Keys, mode \in BadModes : Search(target_key, mode)

SpecModes == Init /\ [][ModesNext]_vars

\* One structure, a stack or a tree, under its public mutators.
MutatorsNext ==
    \/ BSTUntouched /\ \E new_key \in Keys : Push(new_key)
    \/ BSTUntouched /\ Pop
    \/ DLLSUntouched /\ \E new_key \in Keys, mode \in Modes : Insert(new_key, mode)
    \/ DLLSUntouched /\ \E node \in TreeNodes : Delete(node)

SpecMutators == Init /\ [][MutatorsNext]_vars

\* One structure, a stack or a tree, under its mutators and all its read
\* operations, min_node to successor_node on nodes of the tree.
ReadsNext ==
    \/ BSTUntouched /\ \E new_key \in Keys : Push(new_key)
    \/ BSTUntouched /\ Pop
    \/ BSTUntouched /\ \E target_key \in Keys, mode \in Modes : DLLSSearch(target_key, mode)
    \/ BSTUntouched /\ IsEmpty
    \/ DLLSUntouched /\ bst_n < MaxReadNodes
                     /\ \E new_key \in Keys, mode \in Modes : Insert(new_key, mode)
    \/ DLLSUntouched /\ \E node \in TreeNodes : Delete(node)
    \/ DLLSUntouched /\ \E target_key \in Keys, mode \in Modes : Search(target_key, mode)
    \/ DLLSUntouched /\ \E name \in WalkNames, start \in TreeNodes \cup {None} : Walk(name, start)
    \/ DLLSUntouched /\ \E name \in NavNames, node \in TreeNodes : Nav(name, node)

SpecReads == Init /\ [][ReadsNext]_vars

\* The scenario's tree: its inserts in order, then its delete, with walks and
\* min/max/predecessor/successor calls in between.
ScenarioInit ==
    /\ DLLSInit
    /\ root = None
    /\ bst_key = [x \in ScenarioNodes |-> None]
    /\ parent = [x \in ScenarioNodes |-> None]
    /\ left_child = [x \in ScenarioNodes |-> None]
    /\ right_child = [x \in ScenarioNodes |-> None]
    /\ bst_n = 0
    /\ deleted = {}
    /\ op = [name |-> "init", key |-> None, mode |-> "", node |-> None,
             ret |-> None, raised |-> "none"]
    /\ calls = <<>>

ScenarioNext ==
    \/ \E mode \in Modes : ScenarioInsert(mode)
    \/ ScenarioDelete
    \/ \E name \in WalkNames, start \in ScenarioNodes \cup {None} : WalkDefault(name, start)
    \/ \E name \in NavNames, node \in ScenarioNodes : Nav(name, node)

SpecScenario == ScenarioInit /\ [][ScenarioNext]_vars

\* ============================================================ DLLS properties
NPushes == Cardinality({i \in 1..Len(hist) : hist[i].name = "push"})
NPops   == Len(hist) - NPushes

\* The history is n pushes followed only by pops.
PushesThenPops == \A i \in 1..Len(hist) : (hist[i].name = "push") <=> (i <= NPushes)

\* The key pushed by the i-th call (a push).
PushedKey(i) == hist[i].key

\* The keys of the nodes a call took out of the list: those reachable from head
\* before it and not after it.
RemovedKeys(h) ==
    LET gone == {i \in 1..Len(h.before) : \A j \in 1..Len(h.after) : h.after[j] # h.before[i]}
    IN  [i \in gone |-> dlls_key[h.before[i]]]

LastCall == hist[Len(hist)]

\* C2: head is None iff tail is None; in a non-empty list head.prev and
\* tail.next are None; for all nodes a, b reachable from head, a.next is b
\* iff b.prev is a.
C2_LinkInvariant ==
    LET nodes == {Chain(DLLSState)[i] : i \in 1..Len(Chain(DLLSState))}
    IN  /\ (head = None) <=> (tail = None)
        /\ head # None => prev[head] = None /\ next[tail] = None
        /\ \A a \in nodes, b \in nodes : (next[a] = b) <=> (prev[b] = a)

\* C2 witness: a list of two linked nodes left by a pop.
C2_Witness ==
    /\ Len(hist) > 0 /\ LastCall.name = "pop"
    /\ Len(Chain(DLLSState)) = 2
    /\ next[head] = tail /\ prev[tail] = head

\* C3 as stated: the k-th pop after n pushes returns the (n-k+1)-th pushed
\* key (3, 2, 1 after pushing 1, 2, 3), and a pop on the emptied stack
\* returns None.
C3_PopReturnsPushedKeys ==
    (PushesThenPops /\ NPops >= 1) =>
        IF NPops <= NPushes
        THEN /\ LastCall.ret # None
             /\ dlls_key[LastCall.ret] = PushedKey(NPushes - NPops + 1)
        ELSE LastCall.ret = None

\* C3 amended: the k-th pop after n pushes removes the node carrying the
\* (n-k+1)-th pushed key and returns the new tail, the node carrying the
\* (n-k)-th pushed key, or None when k >= n; after pushing 1, 2, 3 the pops
\* remove 3, 2, 1 and return the nodes of 2, 1, then None, and None again
\* on the emptied stack.
C3_PopReturnsNewTail ==
    (PushesThenPops /\ NPops >= 1) =>
        /\ IF NPops < NPushes
           THEN /\ LastCall.ret # None
                /\ dlls_key[LastCall.ret] = PushedKey(NPushes - NPops)
           ELSE LastCall.ret = None
        /\ IF NPops <= NPushes
           THEN /\ DOMAIN RemovedKeys(LastCall) = {Len(LastCall.before)}
                /\ RemovedKeys(LastCall)[Len(LastCall.before)] = PushedKey(NPushes - NPops + 1)
           ELSE DOMAIN RemovedKeys(LastCall) = {}

\* C3 witness: push 1, 2, 3, then four pops returning the nodes of 2 and 1,
\* then None twice.
C3_Witness ==
    /\ Len(hist) = 7 /\ PushesThenPops /\ NPushes = 3
    /\ PushedKey(1) = 1 /\ PushedKey(2) = 2 /\ PushedKey(3) = 3
    /\ hist[4].ret # None /\ dlls_key[hist[4].ret] = 2
    /\ hist[5].ret # None /\ dlls_key[hist[5].ret] = 1
    /\ hist[6].ret = None /\ hist[7].ret = None

\* C4: n pushes followed by n pops leave the stack empty (head and tail None,
\* is_empty true), and the k-th pop removed the node carrying the (n-k+1)-th
\* pushed key.
C4_PushesThenPopsLIFO ==
    (PushesThenPops /\ NPops = NPushes) =>
        /\ head = None /\ tail = None /\ is_empty(DLLSState)
        /\ \A k \in 1..NPops :
              LET h == hist[NPushes + k]
              IN  /\ DOMAIN RemovedKeys(h) = {Len(h.before)}
                  /\ RemovedKeys(h)[Len(h.before)] = PushedKey(NPushes - k + 1)

\* C4 witness: three pushes of distinct keys, then three pops.
C4_Witness ==
    /\ PushesThenPops /\ NPushes = 3 /\ NPops = 3
    /\ PushedKey(1) # PushedKey(2) /\ PushedKey(2) # PushedKey(3)
    /\ is_empty(DLLSState)

\* C8: pop on a non-empty stack returns the tail after the removal, which is
\* the removed node's former prev, and None when the removed node was the
\* only node.
C8_PopReturnsNewTail ==
    (Len(hist) > 0 /\ LastCall.name = "pop" /\ ~LastCall.was_empty) =>
        LET n == Len(LastCall.before)
            removed == LastCall.before[n]
        IN  /\ LastCall.raised = "none"
            /\ LastCall.ret = tail
            /\ LastCall.ret = prev[removed]
            /\ LastCall.after = SubSeq(LastCall.before, 1, n - 1)
            /\ (n = 1) => (LastCall.ret = None)
            /\ (n > 1) => (LastCall.ret = LastCall.before[n - 1])

\* C8 witness: a pop on three nodes returned the middle one, now the tail.
C8_Witness ==
    /\ Len(hist) > 0 /\ LastCall.name = "pop"
    /\ Len(LastCall.before) = 3
    /\ LastCall.ret = LastCall.before[2] /\ tail = LastCall.ret

\* C9: pop on an empty stack returns None, raises nothing and leaves head and
\* tail None.
C9_PopOnEmpty ==
    \A i \in 1..Len(hist) :
        (hist[i].name = "pop" /\ hist[i].was_empty) =>
            /\ hist[i].ret = None
            /\ hist[i].raised = "none"
            /\ hist[i].before = <<>> /\ hist[i].after = <<>>
            /\ (i = Len(hist)) => (head = None /\ tail = None)

\* C9 witness: a pop on the stack emptied by an earlier pop.
C9_Witness ==
    /\ Len(hist) >= 3 /\ LastCall.name = "pop" /\ LastCall.was_empty
    /\ hist[Len(hist) - 1].name = "pop" /\ ~hist[Len(hist) - 1].was_empty

\* ============================================================= BST properties
Tree == InTree(BSTState)

\* The keys stored in the tree.
StoredKeys == {bst_key[x] : x \in Tree}

\* The node that took the place of the node the last delete_node removed:
\* the one that now holds its left child.  (The removed node keeps its links.)
Replacement(node) == {m \in Tree : left_child[m] = left_child[node]}

\* C1: for every node N reachable from root, every key in N's left subtree
\* compares LESS than N.key and every key in N's right subtree compares GREATER
\* or EQUAL to N.key, after any inserts (either mode, duplicates allowed) and
\* deletes of nodes in the tree.
C1_BSTOrdering ==
    \A N \in Tree :
        /\ \A x \in Subtree(BSTState, left_child[N]) :
              cmp_fn(bst_key[x], bst_key[N]) = LESS
        /\ \A x \in Subtree(BSTState, right_child[N]) :
              cmp_fn(bst_key[x], bst_key[N]) \in {GREATER, EQUAL}

\* C1 witness: a node with two children was deleted and replaced by the
\* minimum of its right subtree, which was not its right child and carried a
\* key EQUAL to the deleted node's.
C1_Witness ==
    /\ op.name = "delete_node"
    /\ left_child[op.node] # None /\ right_child[op.node] # None
    /\ \E m \in Replacement(op.node) :
          /\ m # right_child[op.node]
          /\ right_child[m] = right_child[op.node]
          /\ bst_key[m] = bst_key[op.node]

\* C5: for every reachable tree and every target key, search(target, 'r')
\* returns the same node, or the same None, as search(target, 'i').
C5_SearchModesAgree ==
    (op.name = "search" /\ op.mode = "r") =>
        op.ret = search(BSTState, op.key, "i").ret

\* The keys of the subtree at `node` in the order a walk is to visit them.
RECURSIVE VisitOrder(_, _)
VisitOrder(name, node) ==
    IF node = None THEN <<>>
    ELSE LET l == VisitOrder(name, left_child[node])
             r == VisitOrder(name, right_child[node])
             k == <<bst_key[node]>>
         IN  CASE name = "inorder_walk"   -> l \o k \o r
               [] name = "preorder_walk"  -> k \o l \o r
               [] name = "postorder_walk" -> l \o r \o k

CalledByOperation(c) == c.fn = "operation"

\* C6: a walk started at a node with a caller-supplied operation invokes the
\* operation exactly once for every key of the node's subtree, in the walk's
\* order, and not at all for a None start node.
C6_WalkCallsOperationOnEveryKey ==
    (op.name \in WalkNames) =>
        LET got == SelectSeq(calls, CalledByOperation)
        IN  [i \in 1..Len(got) |-> got[i].key] = VisitOrder(op.name, op.node)

\* C7: search(k) in the default iterative mode returns a node of the tree whose
\* key compares EQUAL to k for every key k stored in the tree, and None for
\* every key that is not stored, after any inserts and deletes.
C7_SearchCompleteness ==
    /\ \A k \in Keys :
          LET r == search(BSTState, k, "i")
          IN  /\ r.raised = "none"
              /\ IF k \in StoredKeys
                 THEN r.ret \in Tree /\ cmp_fn(bst_key[r.ret], k) = EQUAL
                 ELSE r.ret = None
    /\ (op.name = "search" /\ op.mode = "i") =>
          /\ op.raised = "none"
          /\ IF op.key \in StoredKeys
             THEN op.ret \in Tree /\ cmp_fn(bst_key[op.ret], op.key) = EQUAL
             ELSE op.ret = None

\* C7 witness: after a delete, an iterative search returned a node below the
\* root, while another key is not stored and is not found.
C7_Witness ==
    /\ op.name = "search" /\ op.mode = "i"
    /\ deleted # {}
    /\ op.ret # None /\ op.ret # root /\ bst_key[op.ret] = op.key
    /\ \E k \in Keys \ StoredKeys : search(BSTState, k, "i").ret = None

\* C10: delete_node on a node of the tree never raises, and once every node
\* that was inserted has been deleted, in whatever order, root is None.
C10_DeleteAllLeavesEmpty ==
    /\ (op.name = "delete_node") => (op.raised = "none")
    /\ (deleted = 1..bst_n) => (root = None)

\* C10 witness: the last of four nodes was deleted, and the first one inserted
\* was not the last one deleted.
C10_Witness ==
    /\ op.name = "delete_node" /\ op.node # 1
    /\ bst_n = 4 /\ deleted = 1..bst_n
    /\ root = None

\* The nodes of the subtree at `node` in inorder: left subtree, node, right
\* subtree.
RECURSIVE InorderNodes(_)
InorderNodes(node) ==
    IF node = None THEN <<>>
    ELSE InorderNodes(left_child[node]) \o <<node>> \o InorderNodes(right_child[node])

\* The place of a node of the tree in the tree's inorder sequence.
InorderIndex(node) ==
    CHOOSE i \in 1..Len(InorderNodes(root)) : InorderNodes(root)[i] = node

\* The node after (by +1) or before (by -1) `node` in the inorder sequence,
\* None at the ends.
InorderNeighbour(node, by) ==
    LET i == InorderIndex(node) + by
    IN  IF i \in 1..Len(InorderNodes(root)) THEN InorderNodes(root)[i] ELSE None

\* C11: in every tree reachable by insert_node/delete_node, successor_node(n)
\* returns the node right after n in the inorder sequence, or None when n is
\* the last one, and predecessor_node(n) the node right before n, or None
\* when n is the first one.
C11_SuccessorPredecessorInorder ==
    /\ \A n \in Tree :
          /\ successor_node(BSTState, n).raised = "none"
          /\ successor_node(BSTState, n).ret = InorderNeighbour(n, 1)
          /\ predecessor_node(BSTState, n).raised = "none"
          /\ predecessor_node(BSTState, n).ret = InorderNeighbour(n, -1)
    /\ (op.name = "successor_node" /\ op.node \in Tree) =>
          (op.raised = "none" /\ op.ret = InorderNeighbour(op.node, 1))
    /\ (op.name = "predecessor_node" /\ op.node \in Tree) =>
          (op.raised = "none" /\ op.ret = InorderNeighbour(op.node, -1))

\* C11 witness: successor_node on a node without a right child returned an
\* ancestor above its parent, the next node in inorder.
C11_Witness ==
    /\ op.name = "successor_node" /\ op.node \in Tree
    /\ right_child[op.node] = None
    /\ op.ret # None /\ op.ret # parent[op.node]
    /\ op.ret = InorderNeighbour(op.node, 1)

\* C12: for every node n of a reachable tree whose successor_node is not
\* None, predecessor_node(successor_node(n)) is n itself, also with duplicate
\* keys.
C12_PredecessorOfSuccessor ==
    /\ \A n \in Tree :
          LET s == successor_node(BSTState, n).ret
          IN  s # None => predecessor_node(BSTState, s).ret = n
    /\ (op.name = "predecessor_node" /\ op.node \in Tree) =>
          \A n \in Tree :
              successor_node(BSTState, n).ret = op.node => op.ret = n

\* C12 witness: predecessor_node, called on the successor of a node with the
\* same key, returned that node.
C12_Witness ==
    /\ op.name = "predecessor_node" /\ op.node \in Tree
    /\ op.ret # None
    /\ successor_node(BSTState, op.ret).ret = op.node
    /\ bst_key[op.ret] = bst_key[op.node]

\* C13: insert_node builds the same tree in mode 'i' and in mode 'r' (same
\* shape, same key at each position, same parent links), whatever modes built
\* the tree so far, and returns the newly inserted node in both modes.
C13_InsertModesAgree ==
    /\ bst_n < MaxTreeNodes =>
          \A new_key \in Keys :
              LET i == insert_node(BSTState, new_key, "i")
                  r == insert_node(BSTState, new_key, "r")
              IN  /\ i = r
                  /\ i.raised = "none"
                  /\ i.ret = bst_n + 1 /\ r.ret = bst_n + 1
                  /\ i.key[i.ret] = new_key
                  /\ InTree(i) = Tree \cup {i.ret} /\ InTree(r) = Tree \cup {r.ret}
    /\ (op.name = "insert_node") =>
          /\ op.raised = "none"
          /\ op.ret = bst_n /\ op.ret \in Tree /\ bst_key[op.ret] = op.key

\* C13 witness: a recursive insert put a fourth node two levels down, under
\* a node with the same key.
C13_Witness ==
    /\ op.name = "insert_node" /\ op.mode = "r"
    /\ bst_n = 4 /\ op.ret = 4
    /\ parent[op.ret] # None /\ parent[op.ret] # root
    /\ bst_key[parent[op.ret]] = bst_key[op.ret]
    /\ right_child[parent[op.ret]] = op.ret

\* The child slots of the tree's nodes that hold a node.
FilledSlots ==
    {s \in Tree \X {"left_child", "right_child"} : BSTState[s[2]][s[1]] # None}

\* C19: when root is not None its parent is None; every left or right child
\* of a node N reachable from root has parent N; each reachable node other
\* than root is held by exactly one child slot, so the structure is a tree.
C19_LinkInvariant ==
    /\ root # None => parent[root] = None
    /\ \A N \in Tree :
          /\ left_child[N] # None => parent[left_child[N]] = N
          /\ right_child[N] # None => parent[right_child[N]] = N
    /\ \A s1 \in FilledSlots, s2 \in FilledSlots :
          BSTState[s1[2]][s1[1]] = BSTState[s2[2]][s2[1]] => s1 = s2
    /\ \A s \in FilledSlots : BSTState[s[2]][s[1]] # root
    /\ root # None => Cardinality(FilledSlots) = Cardinality(Tree) - 1

\* C19 witness: the root, which had one child, was deleted and its child, with
\* children of its own, is the root now.
C19_Witness ==
    /\ op.name = "delete_node" /\ parent[op.node] = None
    /\ (left_child[op.node] = None) # (right_child[op.node] = None)
    /\ root # None /\ root \in {left_child[op.node], right_child[op.node]}
    /\ left_child[root] # None /\ right_child[root] # None

\* C18: min_node, max_node, predecessor_node, successor_node and delete_node,
\* called with None or with an object that is no node, raise TypeError (they
\* do not return a not-found value) and leave the tree unchanged.
C18_NullArgumentRaises ==
    [][(op'.name \in NavNames \cup {"delete_node"} /\ op'.node \notin 1..bst_n) =>
          /\ op'.raised = "TypeError"
          /\ UNCHANGED <<root, bst_key, parent, left_child, right_child, bst_n>>]_vars

\* C18 witness: delete_node(None) on a tree of three nodes raised TypeError.
C18_Witness ==
    /\ op.name = "delete_node" /\ op.node = None
    /\ op.raised = "TypeError"
    /\ Cardinality(Tree) = 3

\* The keys a walk without an operation prints from root, in inorder.
InorderKeys ==
    LET w == inorder_walk(BSTState, root, "print")
    IN  [i \in 1..Len(w) |-> w[i].key]

\* C14: inserting 5, 3, 8, 1, 4, 7, 9 gives the inorder sequence
\* 1, 3, 4, 5, 7, 8, 9; after delete_node on the node with key 5 (the root,
\* with two children) root is not None, the inorder sequence is
\* 1, 3, 4, 7, 8, 9, and successor_node of the node with key 4 is the node
\* with key 7.
C14_Scenario ==
    /\ (bst_n = Len(ScenarioKeys) /\ deleted = {}) =>
          /\ InorderKeys = <<1, 3, 4, 5, 7, 8, 9>>
          /\ bst_key[root] = 5 /\ left_child[root] # None /\ right_child[root] # None
          /\ (op.name = "inorder_walk" /\ op.node = root) =>
                [i \in 1..Len(calls) |-> calls[i].key] = <<1, 3, 4, 5, 7, 8, 9>>
    /\ (deleted # {}) =>
          /\ op.name = "delete_node" => (op.raised = "none" /\ bst_key[op.node] = 5)
          /\ root # None
          /\ InorderKeys = <<1, 3, 4, 7, 8, 9>>
          /\ (op.name = "inorder_walk" /\ op.node = root) =>
                [i \in 1..Len(calls) |-> calls[i].key] = <<1, 3, 4, 7, 8, 9>>
          /\ LET n4 == search(BSTState, 4, "i").ret
                 n7 == search(BSTState, 7, "i").ret
             IN  /\ n4 # None /\ n7 # None
                 /\ successor_node(BSTState, n4).ret = n7
          /\ (op.name = "successor_node" /\ bst_key[op.node] = 4) =>
                (op.ret # None /\ bst_key[op.ret] = 7)

\* C14 witness: after the delete, successor_node on the node with key 4
\* returned the node with key 7, the new root.
C14_Witness ==
    /\ deleted # {} /\ bst_n = 7
    /\ op.name = "successor_node" /\ bst_key[op.node] = 4
    /\ op.ret # None /\ bst_key[op.ret] = 7 /\ op.ret = root

\* The first node of the chain from head whose key is k, None when there is none.
FirstMatch(k) ==
    LET c == Chain(DLLSState)
        hits == {i \in 1..Len(c) : dlls_key[c[i]] = k}
    IN  IF hits = {} THEN None
        ELSE c[CHOOSE i \in hits : \A j \in hits : i <= j]

\* C15: DLLS search returns the first node from head to tail inclusive whose
\* key equals the target (the earliest pushed of several matches), and None
\* when no node matches or the list is empty.
C15_SearchReturnsFirstMatch ==
    /\ \A k \in Keys : dlls_search(DLLSState, k, "i").ret = FirstMatch(k)
    /\ (dlls_op.name = "search" /\ dlls_op.mode = "i") =>
           /\ dlls_op.raised = "none"
           /\ dlls_op.ret = FirstMatch(dlls_op.key)
           /\ is_empty(DLLSState) => dlls_op.ret = None

\* A search that found the earlier of two matching nodes, the later one being the tail.
C15_Witness ==
    /\ dlls_op.name = "search" /\ dlls_op.mode = "i"
    /\ Len(Chain(DLLSState)) = 3
    /\ dlls_key[Chain(DLLSState)[1]] # dlls_op.key
    /\ dlls_key[Chain(DLLSState)[2]] = dlls_op.key
    /\ dlls_key[tail] = dlls_op.key
    /\ dlls_op.ret = Chain(DLLSState)[2]

\* C16: on every list reachable by push and pop and for every target key,
\* search(target, 'r') returns the same node (or None) as search(target, 'i').
C16_SearchModesAgree ==
    /\ \A k \in Keys :
           dlls_search(DLLSState, k, "r").ret = dlls_search(DLLSState, k, "i").ret
    /\ (dlls_op.name = "search" /\ dlls_op.mode = "r") =>
           dlls_op.ret = dlls_search(DLLSState, dlls_op.key, "i").ret

\* A recursive search, after a pop, that found its key in the tail node only.
C16_Witness ==
    /\ dlls_op.name = "search" /\ dlls_op.mode = "r"
    /\ NPops > 0
    /\ Len(Chain(DLLSState)) = 2
    /\ dlls_op.ret = tail
    /\ dlls_key[head] # dlls_op.key

\* C20: push on an empty DLLS makes the new node head and tail; on a non-empty
\* DLLS it links the new node after the old tail and leaves head and the
\* earlier nodes' keys and order unchanged; either way it returns the new tail,
\* whose key is the pushed key.
C20_Push ==
    [][(Len(hist') > Len(hist) /\ hist'[Len(hist')].name = "push") =>
          LET call == hist'[Len(hist')]
              old  == Chain(DLLSState)
              new  == call.ret
          IN  /\ call.raised = "none"
              /\ new = tail'
              /\ dlls_key'[new] = call.key
              /\ \A i \in 1..Len(old) : new # old[i] /\ dlls_key'[old[i]] = dlls_key[old[i]]
              /\ call.after = Append(old, new)
              /\ next'[new] = None
              /\ IF tail = None
                    THEN head' = new /\ prev'[new] = None /\ old = << >>
                    ELSE /\ head' = head
                         /\ next'[tail] = new
                         /\ prev'[new] = tail
                         /\ \A i \in 1..Len(old) : prev'[old[i]] = prev[old[i]]
                         /\ \A i \in 1..(Len(old) - 1) : next'[old[i]] = next[old[i]]]_vars

\* A push on a list of two nodes, made after a pop.
C20_Witness ==
    /\ Len(hist) > 0
    /\ LastCall.name = "push"
    /\ ~LastCall.was_empty
    /\ NPops > 0
    /\ Len(LastCall.before) = 2
    /\ Chain(DLLSState) = Append(LastCall.before, tail)
    /\ dlls_key[tail] = LastCall.key

\* C17: DLLS.search, BST.search and BST.insert_node fail with a type error
\* when mode is not a string and with a distinct value error when mode is a
\* string other than 'i' or 'r'; the structure (head, tail and links, or root
\* and all parent/child links) is then as before the call, and a failed
\* insert_node adds no node to the tree.
C17_ModeErrors ==
    [][/\ (dlls_op'.name = "search" /\ dlls_op'.mode \notin Modes) =>
            /\ dlls_op'.raised = IF is_str(dlls_op'.mode) THEN "ValueError" ELSE "TypeError"
            /\ UNCHANGED <<head, tail, next, prev, dlls_key, dlls_n>>
       /\ (op'.name \in {"search", "insert_node"} /\ op'.mode \notin Modes) =>
            /\ op'.raised = IF is_str(op'.mode) THEN "ValueError" ELSE "TypeError"
            /\ UNCHANGED <<root, parent, left_child, right_child>>
            /\ InTree(BSTState)' = InTree(BSTState)
            /\ \A x \in InTree(BSTState) : bst_key'[x] = bst_key[x]]_vars

\* An insert_node with an unrecognised string mode has failed on a tree of
\* two nodes, and the tree still has its two nodes.
C17_Witness ==
    /\ op.name = "insert_node"
    /\ op.mode = "x"
    /\ op.raised = "ValueError"
    /\ Cardinality(InTree(BSTState)) = 2
    /\ deleted = {}
    /\ bst_n = 3

\* The node under which a key k goes: from curr, left when k is LESS than the
\* node's key and right otherwise, down to an empty slot.
RECURSIVE Descend(_, _, _)
Descend(k, prev_node, curr) ==
    IF curr = None THEN prev_node
    ELSE Descend(k, curr, IF k < bst_key[curr] THEN left_child[curr] ELSE right_child[curr])

\* The ancestors of a node, in the links of the state t.
RECURSIVE Ancestors(_, _)
Ancestors(t, node) ==
    IF node = None \/ t.parent[node] = None THEN {}
    ELSE {t.parent[node]} \cup Ancestors(t, t.parent[node])

\* C21: insert_node adds exactly one new leaf: the new node has no children,
\* it fills one previously empty child slot (or becomes root of an empty tree)
\* found by moving left when the key is LESS than the current node's key and
\* right otherwise, so a key EQUAL to an ancestor's key is in that ancestor's
\* right subtree; every node that existed keeps its key, parent and other
\* child links.
C21_InsertAddsOneLeaf ==
    [][(op'.name = "insert_node" /\ bst_n' = bst_n + 1) =>
          LET new == op'.ret
              k   == op'.key
              p   == Descend(k, None, root)
              old  == 1..bst_n
              post == BSTState'
          IN  /\ op'.raised = "none"
              /\ new = bst_n + 1
              /\ bst_key'[new] = k
              /\ left_child'[new] = None /\ right_child'[new] = None
              /\ parent'[new] = p
              /\ InTree(BSTState)' = InTree(BSTState) \cup {new}
              /\ \A x \in old : bst_key'[x] = bst_key[x] /\ parent'[x] = parent[x]
              /\ \A x \in old \ {p} :
                     left_child'[x] = left_child[x] /\ right_child'[x] = right_child[x]
              /\ IF root = None THEN root' = new /\ p = None
                 ELSE /\ root' = root
                      /\ IF k < bst_key[p]
                            THEN /\ left_child[p] = None /\ left_child'[p] = new
                                 /\ right_child'[p] = right_child[p]
                            ELSE /\ right_child[p] = None /\ right_child'[p] = new
                                 /\ left_child'[p] = left_child[p]
              /\ \A a \in Ancestors(post, new) :
                     post.key[a] = k => new \in Subtree(post, post.right_child[a])]_vars

\* After a delete, an insert of a key equal to the root's key has put the new
\* leaf two levels down, in the root's right subtree.
C21_Witness ==
    /\ op.name = "insert_node" /\ op.raised = "none"
    /\ deleted # {}
    /\ root # None /\ op.ret # root
    /\ bst_key[op.ret] = bst_key[root]
    /\ parent[op.ret] # root
    /\ op.ret \in Subtree(BSTState, right_child[root])
    /\ left_child[op.ret] = None /\ right_child[op.ret] = None

\* C22: the read operations are pure: DLLS.search and BST.search in both
\* modes, is_empty, min_node, max_node, predecessor_node, successor_node and
\* the three walks leave head, tail and root, every node's key and every
\* next, prev, parent, left_child and right_child link unchanged.
C22_ReadsArePure ==
    [][/\ dlls_op'.name \in {"search", "is_empty"} =>
            UNCHANGED <<head, tail, dlls_key, next, prev>>
       /\ op'.name \in {"search"} \cup NavNames \cup WalkNames =>
            UNCHANGED <<root, bst_key, parent, left_child, right_child>>]_vars

\* A recursive search that found a node other than the head in a list of
\* three nodes, which still has its three nodes.
C22_Witness ==
    /\ dlls_op.name = "search" /\ dlls_op.mode = "r"
    /\ dlls_op.ret \notin {None, head}
    /\ Len(Chain(DLLSState)) = 3
    /\ NPops > 0

\* A step of delete_node on a node of the tree.
DeleteStep == op'.name = "delete_node" /\ deleted' # deleted

\* The node at the end of the left_child links from a node.
RECURSIVE LeftEnd(_)
LeftEnd(node) == IF left_child[node] = None THEN node ELSE LeftEnd(left_child[node])

\* After the step, `new` is in the slot `node` was in: its parent's child
\* slot, or root.
InPlaceOf(node, new) ==
    /\ IF parent[node] = None THEN root' = new
       ELSE /\ root' = root
            /\ left_child[parent[node]] = node => left_child'[parent[node]] = new
            /\ right_child[parent[node]] = node => right_child'[parent[node]] = new
    /\ new # None => parent'[new] = parent[node]

C24_DeleteAtMostOneChild ==
    [][(DeleteStep /\ (left_child[op'.node] = None \/ right_child[op'.node] = None)) =>
          LET node  == op'.node
              child == IF left_child[node] = None THEN right_child[node]
                                                  ELSE left_child[node]
              below == Subtree(BSTState, child)
          IN  /\ op'.raised = "none"
              /\ InPlaceOf(node, child)
              /\ \A x \in below :
                    /\ bst_key'[x] = bst_key[x]
                    /\ left_child'[x] = left_child[x]
                    /\ right_child'[x] = right_child[x]
                    /\ x # child => parent'[x] = parent[x]]_vars

\* The node deleted was not the root and had a left child only; that child,
\* which has a child of its own, is now under the node's parent.
C24_Witness ==
    /\ op.name = "delete_node" /\ op.raised = "none" /\ op.node \in deleted
    /\ left_child[op.node] # None /\ right_child[op.node] = None
    /\ parent[op.node] \in Tree
    /\ left_child[op.node] \in Tree
    /\ parent[left_child[op.node]] = parent[op.node]
    /\ left_child[left_child[op.node]] # None \/ right_child[left_child[op.node]] # None

\* C25: delete_node removes exactly the given node: the node is no longer
\* reachable from root, every other node that was reachable still is, with
\* its key, and the multiset of reachable keys is the former one less one
\* occurrence of the node's key.
C25_DeleteRemovesExactlyNode ==
    [][DeleteStep =>
          LET node   == op'.node
              before == InTree(BSTState)
              after  == InTree(BSTState')
          IN  /\ node \in before
              /\ after = before \ {node}
              /\ \A x \in after : bst_key'[x] = bst_key[x]
              /\ \A k \in Keys :
                    Cardinality({x \in after : bst_key'[x] = k}) =
                    Cardinality({x \in before : bst_key[x] = k})
                      - (IF k = bst_key[node] THEN 1 ELSE 0)]_vars

\* A node with two children was deleted and a node with the same key is
\* still in the tree, which has three nodes.
C25_Witness ==
    /\ op.name = "delete_node" /\ op.raised = "none" /\ op.node \in deleted
    /\ left_child[op.node] # None /\ right_child[op.node] # None
    /\ Cardinality(Tree) = 3
    /\ \E x \in Tree : bst_key[x] = bst_key[op.node]

\* The nodes of the list and their number; the number of nodes of the tree.
ListNodes == {Chain(DLLSState)[i] : i \in 1..Len(Chain(DLLSState))}
NList == Cardinality(ListNodes)
NTree == Cardinality(Tree)

\* More steps than any structure of the model has nodes.
ListFuel == MaxStackNodes + 1
TreeFuel == MaxTreeNodes + 1

\* C26: every operation terminates on every structure reachable by the
\* public mutators: the loops and recursions of DLLS.search, insert_node,
\* search, min_node, max_node, predecessor_node, successor_node, delete_node
\* and the walks take at most as many steps as there are nodes, the next
\* chain from head and the parent/child links having no cycle.
C26_Termination ==
    /\ Len(Chain(DLLSState)) = NList
    /\ NList <= dlls_n
    /\ \A k \in Keys : dlls_search_steps(DLLSState, head, k, ListFuel) <= NList
    /\ walk_steps(BSTState, root, TreeFuel) = NTree
    /\ NTree <= bst_n
    /\ \A k \in Keys :
          /\ insert_steps(BSTState, k, root, TreeFuel) <= NTree
          /\ iterative_search_steps(BSTState, root, k, TreeFuel) <= NTree
          /\ recursive_search_steps(BSTState, root, k, TreeFuel) <= NTree
    /\ \A x \in Tree :
          /\ leftmost_steps(BSTState, x, TreeFuel) < NTree
          /\ rightmost_steps(BSTState, x, TreeFuel) < NTree
          /\ predecessor_climb_steps(BSTState, x, parent[x], TreeFuel) < NTree
          /\ successor_climb_steps(BSTState, x, parent[x], TreeFuel) < NTree
          /\ walk_steps(BSTState, x, TreeFuel) <= NTree
          /\ right_child[x] # None =>
                leftmost_steps(BSTState, right_child[x], TreeFuel) < NTree

\* After a delete, an insert has gone down a tree that is one chain of nodes
\* and has looked at every node of it.
C26_Witness ==
    /\ op.name = "insert_node" /\ op.raised = "none"
    /\ deleted # {}
    /\ NTree = 3
    /\ left_child[op.ret] = None /\ right_child[op.ret] = None
    /\ insert_steps(BSTState, op.key, root, TreeFuel) = NTree
    /\ \E x \in Tree : successor_climb_steps(BSTState, x, parent[x], TreeFuel) = NTree - 1

====
